---- MODULE Spec2Model ----
(***************************************************************************)
(* binary-os-sim: the bitwise logical-operation engine (class Processor of *)
(* src/lib/index.js) and the run of OSSimulator that feeds it.             *)
(*                                                                         *)
(* A JavaScript string is a sequence of one-character strings, so that     *)
(* padding, trimming, case folding and base-2 parsing are computed and not *)
(* assumed.  `undefined` is the one-element sequence Undefined.            *)
(*                                                                         *)
(* The specifications:                                                     *)
(*   Spec        one run of OSSimulator.run()                              *)
(*   SpecSignal  a run the user may interrupt (SpecSignalLive: with        *)
(*               fairness)                                                 *)
(*   SpecEngine  Processor.performOperation called on drawn arguments      *)
(*   SpecBit     Processor.computeBitOperation called on drawn arguments   *)
(*   SpecEarlier performOperation of the earlier revision, then that of    *)
(*               the current one, on the same arguments                    *)
(*   SpecParallel the end of run() in the revision that awaits two stages  *)
(*               with Promise.all                                          *)
(*   SpecLogger  safeExecute, Logger.logOperation and                      *)
(*               Logger.checkAndClearLogFile called on drawn files         *)
(*   SpecDisplay OSSimulator.displayOutput called on drawn results         *)
(***************************************************************************)
EXTENDS Integers, Sequences, FiniteSets, TLC

VARIABLES
  pc,               \* where the program is
  bitCall,          \* SpecBit: the call of computeBitOperation and its return value
  originalBinary1,  \* run(): first string the user entered (trimmed)
  originalBinary2,  \* run(): second string the user entered (trimmed)
  binary1,          \* run(): first argument handed to performOperation
  binary2,          \* run(): second argument handed to performOperation
  operation,        \* run(): operation name handed to performOperation
  result,           \* run(): string returned by performOperation
  cpu,              \* what performOperation computed and printed
  ram,              \* what storeInRAM was given
  display,          \* what displayOutput printed
  log,              \* the log file: sequence of entries, oldest first
  evals,            \* SpecEngine: outcomes of the completed evaluations
  rnd,              \* last value drawn from Math.random by adaptiveDelay
  clock,            \* wall-clock time (ticks)
  rlOpen,           \* whether the readline interface is open
  input,            \* the line askQuestion resolved with last
  sig,              \* the SIGINT handler: "none", then its steps, then "exited"
  exitCode,         \* the code process.exit was called with, NaN before
  bitIndex,         \* earlier revision: the loop variable i of performOperation
  memoryStep,       \* Promise.all revision: log calls memoryManagement has completed
  securityStep,     \* Promise.all revision: log calls enforceSecurity has completed
  logFile,          \* Logger: the log file on disk, whether it exists and its content
  call,             \* Logger: the call under consideration and the value it returned
  pending,          \* Logger: the entries of the logOperation calls in progress, outermost first
  after,            \* Logger: where the caller of the outermost logOperation goes on
  logErrors         \* Logger: the error codes logError was called with

\* the variables of the direct calls of Logger and safeExecute
loggerVars == <<logFile, call, pending, after, logErrors>>

\* the variables of the specifications that stand beside the run
others == <<bitIndex, memoryStep, securityStep, loggerVars>>

vars == <<pc, bitCall, originalBinary1, originalBinary2, binary1, binary2,
          operation, result, cpu, ram, display, log, evals, rnd, clock, rlOpen,
          input, sig, exitCode, others>>

\* their values while nothing of theirs has happened
OthersIdle ==
  /\ bitIndex = 0 /\ memoryStep = 0 /\ securityStep = 0
  /\ logFile = [exists |-> FALSE, content |-> <<>>]
  /\ call = [fn |-> "", ret |-> ""]
  /\ pending = <<>> /\ after = "" /\ logErrors = <<>>

(***************************************************************************)
(* Bounds of the model                                                     *)
(***************************************************************************)
\* longest operand drawn for a direct call of performOperation (besides SampleOperands)
MaxLen == 2
\* longest line the user types at a binary prompt (besides SampleLines)
MaxLineLen == 2
\* evaluations in a row in SpecEngine
MaxEvals == 2
\* calls of logOperation nested in one another that the model follows
MaxDepth == 3

(***************************************************************************)
(* Program constants                                                       *)
(***************************************************************************)
MAX_BINARY_LENGTH == 8

\* the value `undefined` (an absent argument, an index past the end)
Undefined == <<"undefined">>

\* parseInt's NaN; every number parseInt returns here is >= 0
NaN == -1

(***************************************************************************)
(* Strings                                                                 *)
(***************************************************************************)
Bits == {"0", "1"}

RECURSIVE SeqsUpTo(_, _)
\* all sequences over S of length 0..n
SeqsUpTo(S, n) ==
  IF n = 0 THEN {<<>>}
  ELSE LET shorter == SeqsUpTo(S, n - 1)
       IN shorter \cup {Append(s, c) : s \in {t \in shorter : Len(t) = n - 1}, c \in S}

\* the BinaryStrings of length 1..n
BinaryStrings(n) == SeqsUpTo(Bits, n) \ {<<>>}

\* String.prototype.repeat for a one-character string
Repeat(c, n) == [i \in 1..n |-> c]

\* mutant: padEnd called where padStart is meant
PadStart_Right(s, targetLength, c) ==
  IF Len(s) >= targetLength THEN s ELSE s \o Repeat(c, targetLength - Len(s))

\* String.prototype.padStart(targetLength, padString) with a one-character padString
PadStart(s, targetLength, c) ==
  IF Len(s) >= targetLength THEN s ELSE Repeat(c, targetLength - Len(s)) \o s

\* String.prototype.padEnd(targetLength) (pads with spaces)
PadEnd(s, targetLength) ==
  IF Len(s) >= targetLength THEN s ELSE s \o Repeat(" ", targetLength - Len(s))

\* Number.prototype.toString() of an integer 0..99
DigitChar(d) ==
  CASE d = 0 -> "0" [] d = 1 -> "1" [] d = 2 -> "2" [] d = 3 -> "3" [] d = 4 -> "4"
    [] d = 5 -> "5" [] d = 6 -> "6" [] d = 7 -> "7" [] d = 8 -> "8" [] d = 9 -> "9"

NumToString(i) == IF i < 10 THEN <<DigitChar(i)>> ELSE <<DigitChar(i \div 10), DigitChar(i % 10)>>

RECURSIVE DigitPrefixLen(_, _)
\* how many leading characters of s (from position k) are base-2 digits
DigitPrefixLen(s, k) ==
  IF k > Len(s) \/ s[k] \notin Bits THEN 0 ELSE 1 + DigitPrefixLen(s, k + 1)

RECURSIVE ParseDigits(_, _, _)
\* the left-to-right accumulation of the first n digits of s
ParseDigits(s, n, acc) ==
  IF n = 0 THEN acc
  ELSE ParseDigits(Tail(s), n - 1, 2 * acc + (IF Head(s) = "1" THEN 1 ELSE 0))

\* mutant: the digits are read least-significant-bit first
ParseInt2_LsbFirst(s) ==
  LET n == DigitPrefixLen(s, 1)
  IN IF n = 0 THEN NaN ELSE ParseDigits([i \in 1..n |-> s[n + 1 - i]], n, 0)

\* parseInt(s, 2) of a string without white space or sign: the value of the
\* longest prefix of base-2 digits, NaN when that prefix is empty
ParseInt2(s) ==
  LET n == DigitPrefixLen(s, 1)
  IN IF n = 0 THEN NaN ELSE ParseDigits(s, n, 0)

(***************************************************************************)
(* Operation names                                                         *)
(***************************************************************************)
AND  == <<"A", "N", "D">>
OR   == <<"O", "R">>
XOR  == <<"X", "O", "R">>
NOT  == <<"N", "O", "T">>
NAND == <<"N", "A", "N", "D">>
NOR  == <<"N", "O", "R">>
XNOR == <<"X", "N", "O", "R">>
MAYBE == <<"M", "A", "Y", "B", "E">>

\* const operations of chooseOperation
operations == <<AND, OR, XOR, NOT, NAND, NOR, XNOR>>

Operations == {operations[i] : i \in 1..Len(operations)}
BinaryOperations == Operations \ {NOT}

(***************************************************************************)
(* Processor.computeBitOperation                                           *)
(***************************************************************************)
\* mutant: NOR written as the negation of AND
ComputeBitOperation_NorSlip(bit1, bit2, op) ==
  IF op = AND THEN (IF bit1 = "1" /\ bit2 = "1" THEN "1" ELSE "0")
  ELSE IF op = OR THEN (IF bit1 = "1" \/ bit2 = "1" THEN "1" ELSE "0")
  ELSE IF op = XOR THEN (IF bit1 # bit2 THEN "1" ELSE "0")
  ELSE IF op = NAND THEN (IF bit1 = "1" /\ bit2 = "1" THEN "0" ELSE "1")
  ELSE IF op = NOR THEN (IF bit1 = "1" /\ bit2 = "1" THEN "0" ELSE "1")
  ELSE IF op = XNOR THEN (IF bit1 = bit2 THEN "1" ELSE "0")
  ELSE "0"

\* mutant: AND returns its first bit
ComputeBitOperation_AndFirst(bit1, bit2, op) ==
  IF op = AND THEN (IF bit1 = "1" THEN "1" ELSE "0")
  ELSE IF op = OR THEN (IF bit1 = "1" \/ bit2 = "1" THEN "1" ELSE "0")
  ELSE IF op = XOR THEN (IF bit1 # bit2 THEN "1" ELSE "0")
  ELSE IF op = NAND THEN (IF bit1 = "1" /\ bit2 = "1" THEN "0" ELSE "1")
  ELSE IF op = NOR THEN (IF bit1 = "0" /\ bit2 = "0" THEN "1" ELSE "0")
  ELSE IF op = XNOR THEN (IF bit1 = bit2 THEN "1" ELSE "0")
  ELSE "0"

\* mutant: XNOR returns what XOR returns
ComputeBitOperation_XnorSlip(bit1, bit2, op) ==
  IF op = AND THEN (IF bit1 = "1" /\ bit2 = "1" THEN "1" ELSE "0")
  ELSE IF op = OR THEN (IF bit1 = "1" \/ bit2 = "1" THEN "1" ELSE "0")
  ELSE IF op = XOR THEN (IF bit1 # bit2 THEN "1" ELSE "0")
  ELSE IF op = NAND THEN (IF bit1 = "1" /\ bit2 = "1" THEN "0" ELSE "1")
  ELSE IF op = NOR THEN (IF bit1 = "0" /\ bit2 = "0" THEN "1" ELSE "0")
  ELSE IF op = XNOR THEN (IF bit1 # bit2 THEN "1" ELSE "0")
  ELSE "0"

ComputeBitOperation(bit1, bit2, op) ==
  IF op = AND THEN (IF bit1 = "1" /\ bit2 = "1" THEN "1" ELSE "0")
  ELSE IF op = OR THEN (IF bit1 = "1" \/ bit2 = "1" THEN "1" ELSE "0")
  ELSE IF op = XOR THEN (IF bit1 # bit2 THEN "1" ELSE "0")
  ELSE IF op = NAND THEN (IF bit1 = "1" /\ bit2 = "1" THEN "0" ELSE "1")
  ELSE IF op = NOR THEN (IF bit1 = "0" /\ bit2 = "0" THEN "1" ELSE "0")
  ELSE IF op = XNOR THEN (IF bit1 = bit2 THEN "1" ELSE "0")
  ELSE "0"

(***************************************************************************)
(* Processor.performOperation: the synchronous computation between the     *)
(* awaited log steps (lines 349-385) as a function of the arguments.       *)
(***************************************************************************)
Sep == <<" ", "|", " ">>

\* bit => (bit === '0' ? '1' : '0')
InvertBit(bit) == IF bit = "0" THEN "1" ELSE "0"

\* `${bitA} NOT = ${resBit}`
NotExplanation(bitA, resBit) == <<bitA>> \o <<" ", "N", "O", "T", " ", "=", " ">> \o <<resBit>>

\* mutant: the two bits are printed in the wrong order
Explanation_Swapped(bit1, op, bit2, resBit) ==
  <<bit2, " ">> \o op \o <<" ", bit1, " ", "=", " ", resBit>>

\* `${bit1} ${operation} ${bit2} = ${resBit}`
Explanation(bit1, op, bit2, resBit) ==
  <<bit1, " ">> \o op \o <<" ", bit2, " ", "=", " ", resBit>>

\* the row pushed for index i (0-based) in the NOT branch
NotRow(i, bitA, resBit) ==
  <<" ", " ">> \o PadEnd(NumToString(i), 2) \o Sep \o PadStart(<<bitA>>, 2, " ") \o Sep
    \o PadEnd(PadStart(<<resBit>>, 3, " "), 6) \o Sep \o NotExplanation(bitA, resBit)

\* the row pushed for index i (0-based) in the two-operand branch
Row(i, bit1, bit2, resBit, op) ==
  <<" ", " ">> \o PadEnd(NumToString(i), 2) \o Sep \o PadStart(<<bit1>>, 2, " ") \o Sep
    \o PadStart(<<bit2>>, 2, " ") \o Sep
    \o PadEnd(PadStart(<<resBit>>, 3, " "), 6) \o Sep \o Explanation(bit1, op, bit2, resBit)

\* Math.max(a, b)
Max(a, b) == IF a >= b THEN a ELSE b

\* what a call that throws leaves behind: nothing computed, nothing printed
Thrown(error) ==
  [threw |-> TRUE, error |-> error, binary1 |-> <<>>, binary2 |-> <<>>,
   decimal1 |-> NaN, decimal2 |-> NaN, result |-> <<>>, decimalResult |-> NaN,
   tableOutput |-> <<>>, bitCalls |-> <<>>]

\* mutant: the result is kept in a field that outlives the call
EmptyResult_Stale == result

\* let result = ''
EmptyResult == <<>>

PerformOperation(b1, b2, op) ==
  IF b1 = Undefined \/ b2 = Undefined
  THEN Thrown("TypeError")  \* reading .length of undefined
  ELSE
    LET maxLen == Max(Len(b1), Len(b2))
        p1 == PadStart(b1, maxLen, "0")
        p2 == PadStart(b2, maxLen, "0")
        res == IF op = NOT
               THEN [i \in 1..maxLen |-> InvertBit(p1[i])]
               ELSE EmptyResult \o [i \in 1..maxLen |-> ComputeBitOperation(p1[i], p2[i], op)]
        \* the NOT branch reads resBit from result[i], the other from computeBitOperation
        table == IF op = NOT
                 THEN [i \in 1..maxLen |-> NotRow(i - 1, p1[i], res[i])]
                 ELSE [i \in 1..maxLen |->
                         Row(i - 1, p1[i], p2[i], ComputeBitOperation(p1[i], p2[i], op), op)]
        \* the arguments of the calls of computeBitOperation, in order
        calls == IF op = NOT
                 THEN <<>>
                 ELSE [i \in 1..maxLen |-> [bit1 |-> p1[i], bit2 |-> p2[i], operation |-> op]]
    IN [threw |-> FALSE, error |-> "", binary1 |-> p1, binary2 |-> p2,
        decimal1 |-> ParseInt2(p1), decimal2 |-> ParseInt2(p2),
        result |-> res, decimalResult |-> ParseInt2(res), tableOutput |-> table,
        bitCalls |-> calls]

(***************************************************************************)
(* Input handling                                                          *)
(***************************************************************************)
RECURSIVE TrimStart(_)
TrimStart(s) == IF s # <<>> /\ Head(s) = " " THEN TrimStart(Tail(s)) ELSE s

RECURSIVE TrimEnd(_)
TrimEnd(s) ==
  IF s # <<>> /\ s[Len(s)] = " " THEN TrimEnd(SubSeq(s, 1, Len(s) - 1)) ELSE s

\* String.prototype.trim
Trim(s) == TrimEnd(TrimStart(s))

\* mutant: getInput hands the strings on as entered
PadInput_None(s) == s

\* originalBinary.padStart(CONFIG.MAX_BINARY_LENGTH, '0') of getInput
PadInput(s) == PadStart(s, MAX_BINARY_LENGTH, "0")

\* mutant: the pattern without its upper length
IsBinaryInput_NoMax(s) == Len(s) >= 1 /\ \A i \in 1..Len(s) : s[i] \in Bits

\* /^[01]{1,8}$/.test(s)
IsBinaryInput(s) == Len(s) >= 1 /\ Len(s) <= 8 /\ \A i \in 1..Len(s) : s[i] \in Bits

LowerLetters == <<"a", "b", "c", "d", "e", "f", "g", "h", "i", "j", "k", "l", "m",
                  "n", "o", "p", "q", "r", "s", "t", "u", "v", "w", "x", "y", "z">>
UpperLetters == <<"A", "B", "C", "D", "E", "F", "G", "H", "I", "J", "K", "L", "M",
                  "N", "O", "P", "Q", "R", "S", "T", "U", "V", "W", "X", "Y", "Z">>

UpperChar(c) ==
  IF \E i \in 1..Len(LowerLetters) : LowerLetters[i] = c
  THEN UpperLetters[CHOOSE i \in 1..Len(LowerLetters) : LowerLetters[i] = c]
  ELSE c

\* mutant: the answer is compared as typed
ToUpperCase_Identity(s) == s

\* String.prototype.toUpperCase
ToUpperCase(s) == [i \in 1..Len(s) |-> UpperChar(s[i])]

\* mutant: every answer is taken for an operation
Includes_Any(ops, op) == TRUE

\* operations.includes(op)
Includes(ops, op) == \E i \in 1..Len(ops) : ops[i] = op

\* result.replace(/^0+/, '') || '0'
RECURSIVE StripLeadingZeros(_)
StripLeadingZeros(s) == IF s # <<>> /\ Head(s) = "0" THEN StripLeadingZeros(Tail(s)) ELSE s

\* mutant: the replace without the || '0'
TrimmedResult_NoFallback(res) == StripLeadingZeros(res)

TrimmedResult(res) == IF StripLeadingZeros(res) = <<>> THEN <<"0">> ELSE StripLeadingZeros(res)

(***************************************************************************)
(* What the user may type, and what a direct caller may pass               *)
(***************************************************************************)
LineChars == {"0", "1", "2", " "}

\* lines longer than MaxLineLen: the examples of the documentation, the
\* longest accepted line and the shortest line that is too long
SampleLines ==
  { <<"1", "0", "1">>, <<"1", "1", "0", "0">>, Repeat("1", 8), Repeat("1", 9) }

Lines == SeqsUpTo(LineChars, MaxLineLen) \cup SampleLines

OpLines ==
  Operations \cup
  { <<"a", "n", "d">>, <<" ", "X", "o", "r">>, <<"n", "o", "t", " ">>, <<"x", "n", "o", "r">>,
    MAYBE, <<>>, <<"A", "N", "D", " ", "O", "R">>, <<"N">> }

\* operands longer than MaxLen, and operands that are no BinaryStrings
SampleOperands ==
  { <<"1", "0", "1">>, <<"1", "1", "0", "0">>, <<"1", "0", "1", "0">>, <<"0", "1", "0", "1">>,
    Repeat("1", 8), <<"1", "0", "2">>, <<"2">> }

EngineOperands == BinaryStrings(MaxLen) \cup SampleOperands

BitArgs == {"0", "1", "2"}

Rand == {0, 1}

(***************************************************************************)
(* State                                                                   *)
(***************************************************************************)
Entry(level, msg, data) == [level |-> level, msg |-> msg, data |-> data]

NoCall == [bit1 |-> "", bit2 |-> "", operation |-> <<>>, resBit |-> ""]
NoCpu == [done |-> FALSE, out |-> Thrown("")]
NoRam == [done |-> FALSE, result |-> <<>>, decimalResult |-> NaN]
NoDisplay ==
  [done |-> FALSE, operation |-> <<>>, inputA |-> <<>>, decimal1 |-> NaN, fullA |-> <<>>,
   showsB |-> FALSE, inputB |-> <<>>, decimal2 |-> NaN, fullB |-> <<>>,
   trimmedResult |-> <<>>, decimalResult |-> NaN, full |-> <<>>]

\* adaptiveDelay: a delay of random length, during which time passes
AdaptiveDelay == rnd' \in Rand /\ clock' = clock + 1

\* mutant: callbacks outlive process.exit
Alive_AfterExit == TRUE

\* the process has not exited: its callbacks still run
Alive == sig # "exited"

(***************************************************************************)
(* SpecBit: computeBitOperation called on drawn arguments                  *)
(***************************************************************************)
InitBit ==
  /\ pc = "computeBitOperation"
  /\ bitCall \in [bit1 : BitArgs, bit2 : BitArgs \cup {"undefined"},
                  operation : Operations \cup {MAYBE}, resBit : {"pending"}]
  /\ originalBinary1 = <<>> /\ originalBinary2 = <<>>
  /\ binary1 = <<>> /\ binary2 = <<>> /\ operation = <<>>
  /\ result = <<>> /\ cpu = NoCpu /\ ram = NoRam /\ display = NoDisplay
  /\ log = <<>> /\ evals = <<>> /\ rnd = 0 /\ clock = 0 /\ rlOpen = TRUE
  /\ input = <<>> /\ sig = "none" /\ exitCode = NaN
  /\ OthersIdle

CallComputeBitOperation ==
  /\ pc = "computeBitOperation"
  /\ bitCall' = [bitCall EXCEPT
                   !.resBit = ComputeBitOperation(bitCall.bit1, bitCall.bit2, bitCall.operation)]
  /\ pc' = "bitReturned"
  /\ UNCHANGED <<originalBinary1, originalBinary2, binary1, binary2, operation, result,
                 cpu, ram, display, log, evals, rnd, clock, rlOpen, input, sig, exitCode, others>>

NextBit == CallComputeBitOperation

SpecBit == InitBit /\ [][NextBit]_vars

(***************************************************************************)
(* Processor.performOperation as a step: the three log steps and their     *)
(* delays, the computation, and the log entry of the result.  A call that  *)
(* throws has written the entries of the log steps only.                   *)
(***************************************************************************)
StepsBeforeExecution(op) ==
  << Entry("info", "Activating system services (systemd simulation)...", <<>>),
     Entry("debug", "Service: networkd started", <<>>),
     Entry("info", "Configuring network stack (TCP/IP initialization)...", <<>>),
     Entry("info", "Executing via CPU...", <<op>>) >>

\* mutant: the entry of an earlier revision, which names the result only
ExecutedEntry_ResultOnly(op, o) == Entry("info", "Operation executed", <<op, o.result>>)

ExecutedEntry(op, o) ==
  Entry("info", "Operation executed",
        <<op, o.binary1, o.decimal1, o.binary2, o.decimal2, o.result, o.decimalResult>>)

CallPerformOperation(onReturn, onThrow) ==
  /\ pc = "performOperation"
  /\ Alive
  /\ AdaptiveDelay
  /\ LET o == PerformOperation(binary1, binary2, operation)
     IN /\ cpu' = [done |-> TRUE, out |-> o]
        /\ evals' = Append(evals, [binary1 |-> binary1, binary2 |-> binary2,
                                   operation |-> operation, rnd |-> rnd', clock |-> clock',
                                   out |-> o])
        /\ IF o.threw
           THEN /\ pc' = onThrow
                /\ result' = result
                /\ log' = log \o StepsBeforeExecution(operation)
           ELSE /\ pc' = onReturn
                /\ result' = o.result
                /\ log' = log \o StepsBeforeExecution(operation)
                              \o <<ExecutedEntry(operation, o)>>
  /\ UNCHANGED <<bitCall, originalBinary1, originalBinary2, binary1, binary2, operation,
                 ram, display, rlOpen, input, sig, exitCode, others>>

(***************************************************************************)
(* SpecEngine: performOperation called on drawn arguments, and called      *)
(* again with the same arguments or with the two operands exchanged        *)
(***************************************************************************)
InitEngine ==
  /\ pc = "performOperation"
  /\ binary1 \in EngineOperands
  /\ binary2 \in EngineOperands \cup {Undefined}
  /\ operation \in Operations \cup {MAYBE}
  /\ bitCall = NoCall
  /\ originalBinary1 = <<>> /\ originalBinary2 = <<>>
  /\ result = <<>> /\ cpu = NoCpu /\ ram = NoRam /\ display = NoDisplay
  /\ log = <<>> /\ evals = <<>> /\ rnd = 0 /\ clock = 0 /\ rlOpen = TRUE
  /\ input = <<>> /\ sig = "none" /\ exitCode = NaN
  /\ OthersIdle

Evaluate == CallPerformOperation("returned", "threw")

CallAgain ==
  /\ pc \in {"returned", "threw"}
  /\ Len(evals) < MaxEvals
  /\ pc' = "performOperation"
  /\ UNCHANGED <<bitCall, originalBinary1, originalBinary2, binary1, binary2, operation,
                 result, cpu, ram, display, log, evals, rnd, clock, rlOpen, input, sig,
                 exitCode, others>>

CallExchanged ==
  /\ pc \in {"returned", "threw"}
  /\ Len(evals) < MaxEvals
  /\ binary2 # Undefined
  /\ binary1' = binary2
  /\ binary2' = binary1
  /\ pc' = "performOperation"
  /\ UNCHANGED <<bitCall, originalBinary1, originalBinary2, operation,
                 result, cpu, ram, display, log, evals, rnd, clock, rlOpen, input, sig,
                 exitCode, others>>

NextEngine == Evaluate \/ CallAgain \/ CallExchanged

SpecEngine == InitEngine /\ [][NextEngine]_vars

(***************************************************************************)
(* SpecEarlier: performOperation of the earlier revision, which handles    *)
(* AND, OR and XOR, delays after each bit and builds no table; then the    *)
(* current performOperation on the same arguments                          *)
(***************************************************************************)
\* mutant: OR computed as AND
ComputeBitOperationEarlier_OrSlip(bit1, bit2, op) ==
  IF op = AND THEN (IF bit1 = "1" /\ bit2 = "1" THEN "1" ELSE "0")
  ELSE IF op = OR THEN (IF bit1 = "1" /\ bit2 = "1" THEN "1" ELSE "0")
  ELSE IF op = XOR THEN (IF bit1 # bit2 THEN "1" ELSE "0")
  ELSE "0"

ComputeBitOperationEarlier(bit1, bit2, op) ==
  IF op = AND THEN (IF bit1 = "1" /\ bit2 = "1" THEN "1" ELSE "0")
  ELSE IF op = OR THEN (IF bit1 = "1" \/ bit2 = "1" THEN "1" ELSE "0")
  ELSE IF op = XOR THEN (IF bit1 # bit2 THEN "1" ELSE "0")
  ELSE "0"

InitEarlier ==
  /\ pc = "earlierPerformOperation"
  /\ binary1 \in EngineOperands
  /\ binary2 \in EngineOperands
  /\ operation \in Operations \cup {MAYBE}
  /\ bitCall = NoCall
  /\ originalBinary1 = <<>> /\ originalBinary2 = <<>>
  /\ result = <<>> /\ cpu = NoCpu /\ ram = NoRam /\ display = NoDisplay
  /\ log = <<>> /\ evals = <<>> /\ rnd = 0 /\ clock = 0 /\ rlOpen = TRUE
  /\ input = <<>> /\ sig = "none" /\ exitCode = NaN
  /\ OthersIdle

\* 'Executing ... via CPU...', let result = '', i = 0
EarlierEnter ==
  /\ pc = "earlierPerformOperation"
  /\ result' = <<>>
  /\ bitIndex' = 0
  /\ pc' = "earlierLoop"
  /\ UNCHANGED <<bitCall, originalBinary1, originalBinary2, binary1, binary2, operation,
                 cpu, ram, display, log, evals, rnd, clock, rlOpen, input, sig, exitCode,
                 memoryStep, securityStep, loggerVars>>

\* one turn of the loop: the bit is computed and appended, then the delay
EarlierBit ==
  /\ pc = "earlierLoop"
  /\ LET maxLen == Max(Len(binary1), Len(binary2))
         p1 == PadStart(binary1, maxLen, "0")
         p2 == PadStart(binary2, maxLen, "0")
     IN /\ bitIndex < maxLen
        /\ result' = result \o
             <<ComputeBitOperationEarlier(p1[bitIndex + 1], p2[bitIndex + 1], operation)>>
  /\ bitIndex' = bitIndex + 1
  /\ AdaptiveDelay
  /\ UNCHANGED <<pc, bitCall, originalBinary1, originalBinary2, binary1, binary2, operation,
                 cpu, ram, display, log, evals, rlOpen, input, sig, exitCode,
                 memoryStep, securityStep, loggerVars>>

\* the loop is left: 'Result: ...', the log entry, return result
EarlierReturn ==
  /\ pc = "earlierLoop"
  /\ bitIndex >= Max(Len(binary1), Len(binary2))
  /\ log' = Append(log, Entry("info", "Operation executed", <<operation, result>>))
  /\ evals' = Append(evals, [binary1 |-> binary1, binary2 |-> binary2,
                             operation |-> operation, rnd |-> rnd, clock |-> clock,
                             out |-> [threw |-> FALSE, error |-> "", result |-> result]])
  /\ pc' = "earlierReturned"
  /\ UNCHANGED <<bitCall, originalBinary1, originalBinary2, binary1, binary2, operation,
                 result, cpu, ram, display, rnd, clock, rlOpen, input, sig, exitCode, others>>

\* the same arguments are handed to the current performOperation
CallCurrent ==
  /\ pc = "earlierReturned"
  /\ pc' = "performOperation"
  /\ UNCHANGED <<bitCall, originalBinary1, originalBinary2, binary1, binary2, operation,
                 result, cpu, ram, display, log, evals, rnd, clock, rlOpen, input, sig,
                 exitCode, others>>

NextEarlier ==
  \/ EarlierEnter
  \/ EarlierBit
  \/ EarlierReturn
  \/ CallCurrent
  \/ Evaluate

SpecEarlier == InitEarlier /\ [][NextEarlier]_vars

(***************************************************************************)
(* SpecParallel: the end of run() in the revision that awaits              *)
(* Promise.all([memoryManagement(), enforceSecurity()]) after              *)
(* displayOutput.  Both stages are started; the steps of the two are       *)
(* interleaved by the event loop.  log holds the entries written since.    *)
(***************************************************************************)
\* the log calls of memoryManagement: three logStep, then logOperation
MemoryEntries ==
  << Entry("info", "Initializing virtual memory...", <<>>),
     Entry("info", "Setting up paging tables...", <<>>),
     Entry("info", "Memory allocation optimized!", <<>>),
     Entry("info", "Memory management initialized", <<>>) >>

\* the log calls of enforceSecurity: three logStep, then logOperation
SecurityEntries ==
  << Entry("info", "Activating SELinux policies...", <<>>),
     Entry("info", "Configuring process capabilities...", <<>>),
     Entry("info", "Security enforced!", <<>>),
     Entry("info", "Security policies enforced", <<>>) >>

\* mutant: the first stage to end lets run() go on
AllSettled_Race(m, s) == m = Len(MemoryEntries) \/ s = Len(SecurityEntries)

\* Promise.all is fulfilled: both promises are
AllSettled(m, s) == m = Len(MemoryEntries) /\ s = Len(SecurityEntries)

InitParallel ==
  /\ pc = "promiseAll"
  /\ bitCall = NoCall
  /\ originalBinary1 = <<>> /\ originalBinary2 = <<>>
  /\ binary1 = <<>> /\ binary2 = <<>> /\ operation = <<>>
  /\ result = <<>> /\ cpu = NoCpu /\ ram = NoRam /\ display = NoDisplay
  /\ log = <<>> /\ evals = <<>> /\ rnd = 0 /\ clock = 0 /\ rlOpen = TRUE
  /\ input = <<>> /\ sig = "none" /\ exitCode = NaN
  /\ OthersIdle

\* memoryManagement: its next log call, and the delay when it is a logStep
MemoryManagementStep ==
  /\ pc \in {"promiseAll", "cleanup", "success", "done"}
  /\ memoryStep < Len(MemoryEntries)
  /\ log' = Append(log, MemoryEntries[memoryStep + 1])
  /\ memoryStep' = memoryStep + 1
  /\ IF memoryStep + 1 < Len(MemoryEntries) THEN AdaptiveDelay ELSE UNCHANGED <<rnd, clock>>
  /\ UNCHANGED <<pc, bitCall, originalBinary1, originalBinary2, binary1, binary2, operation,
                 result, cpu, ram, display, evals, rlOpen, input, sig, exitCode,
                 bitIndex, securityStep, loggerVars>>

\* enforceSecurity: its next log call, and the delay when it is a logStep
EnforceSecurityStep ==
  /\ pc \in {"promiseAll", "cleanup", "success", "done"}
  /\ securityStep < Len(SecurityEntries)
  /\ log' = Append(log, SecurityEntries[securityStep + 1])
  /\ securityStep' = securityStep + 1
  /\ IF securityStep + 1 < Len(SecurityEntries) THEN AdaptiveDelay ELSE UNCHANGED <<rnd, clock>>
  /\ UNCHANGED <<pc, bitCall, originalBinary1, originalBinary2, binary1, binary2, operation,
                 result, cpu, ram, display, evals, rlOpen, input, sig, exitCode,
                 bitIndex, memoryStep, loggerVars>>

\* the await of Promise.all returns: 'Simulation Complete - System Online!'
SimulationComplete ==
  /\ pc = "promiseAll"
  /\ AllSettled(memoryStep, securityStep)
  /\ pc' = "cleanup"
  /\ UNCHANGED <<bitCall, originalBinary1, originalBinary2, binary1, binary2, operation,
                 result, cpu, ram, display, log, evals, rnd, clock, rlOpen, input, sig,
                 exitCode, others>>

(***************************************************************************)
(* SpecLogger: safeExecute, Logger.logOperation and                        *)
(* Logger.checkAndClearLogFile called directly.  A text is a sequence of   *)
(* tokens; "\n" is the newline.  Every read and write of the file may      *)
(* succeed or fail with an error code.                                     *)
(***************************************************************************)
\* `[${level.toUpperCase()}]`
LevelTag(level) ==
  IF level = "info" THEN "[INFO]"
  ELSE IF level = "error" THEN "[ERROR]"
  ELSE IF level = "debug" THEN "[DEBUG]"
  ELSE "[]"

\* logMessage of logOperation, without the '\n' it is written with
LogMessage(e) ==
  <<"[timestamp]", LevelTag(e.level)>> \o e.message
    \o (IF e.errorCode # "" THEN <<"[Code:", e.errorCode, "]">> ELSE <<>>)

LogEntry(message, level, errorCode) ==
  [message |-> message, level |-> level, errorCode |-> errorCode]

\* the entry logError hands to logOperation: `${message}\nStack: ${stack}`
ErrorEntry(message, errorCode) ==
  LogEntry(message \o <<"\n", "Stack:", "stack">>, "error", errorCode)

\* content.split('\n')
RECURSIVE Split(_)
Split(content) ==
  IF \E k \in 1..Len(content) : content[k] = "\n"
  THEN LET k == CHOOSE k \in 1..Len(content) :
                  content[k] = "\n" /\ \A j \in 1..(k - 1) : content[j] # "\n"
       IN <<SubSeq(content, 1, k - 1)>> \o Split(SubSeq(content, k + 1, Len(content)))
  ELSE <<content>>

\* lines.length > 0 ? lines[lines.length - 1].trim() : ''
LastLine(content) ==
  LET lines == Split(content)
  IN IF Len(lines) > 0 THEN Trim(lines[Len(lines)]) ELSE <<>>

\* lastLine.includes('SUCCESS')
IncludesSuccess(line) == \E k \in 1..Len(line) : line[k] = "SUCCESS"

\* context.includes('checking')
IncludesChecking(context) == \E k \in 1..Len(context) : context[k] = "checking"

\* mutant: the code of the caller is logged whatever the error
SpecificErrorCode_Passed(code, errorCode) == errorCode

\* specificErrorCode of safeExecute
SpecificErrorCode(code, errorCode) ==
  IF code = "EACCES" THEN "ACC001"
  ELSE IF code = "ENOMEM" THEN "MEM001"
  ELSE IF code = "EIO" THEN "IO001"
  ELSE errorCode

\* the file a sequence of entries leaves when each is appended
RECURSIVE ContentOf(_)
ContentOf(entries) ==
  IF entries = <<>> THEN <<>>
  ELSE LogMessage(Head(entries)) \o <<"\n">> \o ContentOf(Tail(entries))

SuccessEntry == LogEntry(<<"SUCCESS">>, "info", "")
CleanupEntry == LogEntry(<<"Cleaning up resources...">>, "info", "")
FailureEntry == ErrorEntry(<<"Critical system failure:", "Page fault detected">>, "MAIN001")
InterruptEntry == LogEntry(<<"System interrupted by user (SIGINT)">>, "error", "")
ClearedEntry == LogEntry(<<"Log file cleared due to previous failure">>, "info", "")
FailedToClearEntry == LogEntry(<<"Failed to clear log file:", "message">>, "error", "")

\* the log files a run may find: none, an empty one, the one a run leaves
\* that succeeded, failed or was interrupted, and files written by hand
\* that end with the word SUCCESS and no newline
LogFiles ==
  { [exists |-> FALSE, content |-> <<>>],
    [exists |-> TRUE, content |-> <<>>],
    [exists |-> TRUE, content |-> ContentOf(<<CleanupEntry, SuccessEntry>>)],
    [exists |-> TRUE, content |-> ContentOf(<<FailureEntry, CleanupEntry>>)],
    [exists |-> TRUE, content |-> ContentOf(<<InterruptEntry, CleanupEntry>>)],
    [exists |-> TRUE, content |-> ContentOf(<<CleanupEntry>>) \o LogMessage(SuccessEntry)],
    [exists |-> TRUE, content |-> LogMessage(SuccessEntry) \o <<" ">>] }

\* what a read or a write of the file ends with
FileOutcomes == {"ok", "ENOENT", "EACCES", "EIO"}

\* ENOENT is met only where there is no file
Possible(outcome) == outcome = "ENOENT" => ~logFile.exists

\* what the function handed to safeExecute ends with
FnOutcomes ==
  [threw : {FALSE}, code : {""}, value : {"stats", "undefined"}]
    \cup [threw : {TRUE}, code : {"ENOENT", "EACCES", "ENOMEM", "EIO", "EBUSY", ""},
          value : {""}]

Contexts ==
  { <<"logging", "operation">>, <<"checking", "output.txt">>, <<"deleting", "output.txt">> }

ErrorCodes == {"GEN001", "FS001"}

NoOutcome == [threw |-> FALSE, code |-> "", value |-> ""]

InitLogger ==
  /\ \/ /\ pc = "checkAndClearLogFile"
        /\ logFile \in LogFiles
        /\ call = [fn |-> "checkAndClearLogFile", context |-> <<>>, errorCode |-> "",
                   outcome |-> NoOutcome, file |-> logFile, ret |-> "pending"]
        /\ pending = <<>>
     \/ /\ pc = "safeExecute"
        /\ logFile = [exists |-> TRUE, content |-> <<>>]
        /\ call \in [fn : {"safeExecute"}, context : Contexts, errorCode : ErrorCodes,
                     outcome : FnOutcomes, file : {logFile}, ret : {"pending"}]
        /\ pending = <<>>
     \/ /\ pc = "logOperation"
        /\ logFile \in LogFiles
        /\ call = [fn |-> "logOperation", context |-> <<>>, errorCode |-> "",
                   outcome |-> NoOutcome, file |-> logFile, ret |-> "pending"]
        /\ pending = <<SuccessEntry>>
  /\ after = "return" /\ logErrors = <<>>
  /\ bitIndex = 0 /\ memoryStep = 0 /\ securityStep = 0
  /\ bitCall = NoCall
  /\ originalBinary1 = <<>> /\ originalBinary2 = <<>>
  /\ binary1 = <<>> /\ binary2 = <<>> /\ operation = <<>>
  /\ result = <<>> /\ cpu = NoCpu /\ ram = NoRam /\ display = NoDisplay
  /\ log = <<>> /\ evals = <<>> /\ rnd = 0 /\ clock = 0 /\ rlOpen = TRUE
  /\ input = <<>> /\ sig = "none" /\ exitCode = NaN

\* the variables of the run, which these calls leave alone
runVars ==
  <<bitCall, originalBinary1, originalBinary2, binary1, binary2, operation, result, cpu,
    ram, display, log, evals, rnd, clock, rlOpen, input, sig, exitCode, bitIndex,
    memoryStep, securityStep>>

\* the call under consideration returns value
Return(value) == pc' = "returned" /\ call' = [call EXCEPT !.ret = value]

\* safeExecute: fn returns, or throws and is caught
SafeExecute ==
  /\ pc = "safeExecute"
  /\ LET err == call.outcome
         specificErrorCode == SpecificErrorCode(err.code, call.errorCode)
     IN IF ~err.threw
        THEN /\ Return(err.value)
             /\ UNCHANGED <<pending, after, logErrors>>
        ELSE IF err.code = "ENOENT" /\ IncludesChecking(call.context)
        THEN /\ Return("false")
             /\ UNCHANGED <<pending, after, logErrors>>
        ELSE /\ logErrors' = Append(logErrors, specificErrorCode)
             /\ pending' = <<ErrorEntry(<<"Error in">> \o call.context \o <<"message">>,
                                        specificErrorCode)>>
             /\ after' = "returnNull"
             /\ pc' = "logOperation"
             /\ call' = call
  /\ UNCHANGED <<logFile, runVars>>

\* checkAndClearLogFile: the file is read and its last line looked at
CheckAndClearLogFile ==
  /\ pc = "checkAndClearLogFile"
  /\ \E read \in FileOutcomes :
       IF ~logFile.exists \/ read = "ENOENT"
       THEN /\ ~logFile.exists
            /\ read = "ENOENT"
            /\ Return("undefined")
            /\ UNCHANGED <<pending, after, logErrors>>
       ELSE IF read = "ok"
       THEN LET lastLine == LastLine(logFile.content)
            IN /\ IF ~IncludesSuccess(lastLine)
                  THEN pc' = "clearLogFile" /\ call' = call
                  ELSE Return("undefined")
               /\ UNCHANGED <<pending, after, logErrors>>
       ELSE /\ logErrors' = Append(logErrors, "LOG002")
            /\ pending' = <<ErrorEntry(<<"Error checking log file:", "message">>, "LOG002")>>
            /\ after' = "return"
            /\ pc' = "logOperation"
            /\ call' = call
  /\ UNCHANGED <<logFile, runVars>>

\* clearLogFile, and then the call of logOperation that follows it
ClearLogFile ==
  /\ pc = "clearLogFile"
  /\ \E write \in FileOutcomes :
       /\ Possible(write)
       /\ IF write = "ok"
          THEN /\ logFile' = [exists |-> TRUE, content |-> <<>>]
               /\ pending' = <<ClearedEntry>>
               /\ after' = "return"
          ELSE /\ logFile' = logFile
               /\ pending' = <<FailedToClearEntry>>
               /\ after' = "logCleared"
  /\ pc' = "logOperation"
  /\ UNCHANGED <<call, logErrors, runVars>>

\* checkAndClearLogFile after a clearLogFile that failed
LogCleared ==
  /\ pc = "logCleared"
  /\ pending' = <<ClearedEntry>>
  /\ after' = "return"
  /\ pc' = "logOperation"
  /\ UNCHANGED <<logFile, call, logErrors, runVars>>

\* the entry is in the file: every logOperation in progress returns, every
\* safeExecute around it too, and the caller of the outermost goes on
Written ==
  /\ pending' = <<>>
  /\ IF after = "logCleared" THEN pc' = "logCleared" /\ call' = call
     ELSE IF after = "returnNull" THEN Return("null")
     ELSE Return("undefined")
  /\ UNCHANGED <<after, logErrors>>

\* the write threw: safeExecute catches, and calls logError, which calls
\* logOperation
WriteFailed(code) ==
  LET specificErrorCode == SpecificErrorCode(code, "LOG001")
  IN /\ Len(pending) < MaxDepth
     /\ pending' = Append(pending,
                     ErrorEntry(<<"Error in", "logging", "operation", "message">>,
                                specificErrorCode))
     /\ logErrors' = Append(logErrors, specificErrorCode)
     /\ UNCHANGED <<pc, call, after, logFile>>

\* logOperation: appendFile, and writeFile when appendFile finds no file
LogOperation ==
  /\ pc = "logOperation"
  /\ LET logMessage == LogMessage(pending[Len(pending)])
     IN \E append \in FileOutcomes :
          /\ Possible(append)
          /\ IF append = "ok"
             THEN /\ logFile' = [exists |-> TRUE,
                                 content |-> logFile.content \o logMessage \o <<"\n">>]
                  /\ Written
             ELSE IF append = "ENOENT"
             THEN \E write \in FileOutcomes :
                    IF write = "ok"
                    THEN /\ logFile' = [exists |-> TRUE, content |-> logMessage \o <<"\n">>]
                         /\ Written
                    ELSE WriteFailed(write)
             ELSE WriteFailed(append)
  /\ UNCHANGED runVars

NextLogger ==
  \/ SafeExecute
  \/ CheckAndClearLogFile
  \/ ClearLogFile
  \/ LogCleared
  \/ LogOperation

SpecLogger == InitLogger /\ [][NextLogger]_vars

(***************************************************************************)
(* Spec: one run of OSSimulator.run()                                      *)
(***************************************************************************)
BootStages ==
  << "powerOnAndBiosInit", "loadBootloader", "enterRing0AndLoadKernel", "loadInitramfs",
     "loadKernelModules", "initializeOS", "memoryManagement", "enforceSecurityAndNetwork" >>

\* the stages that throw when Math.random() falls under their threshold
ThrowingStages == {"powerOnAndBiosInit", "memoryManagement"}

StageIndex(name) == CHOOSE i \in 1..Len(BootStages) : BootStages[i] = name

\* mutant: the run is wound up when the last boot stage ends
AfterStage_NoUserSpace(name) ==
  IF StageIndex(name) < Len(BootStages) THEN BootStages[StageIndex(name) + 1] ELSE "cleanup"

AfterStage(name) ==
  IF StageIndex(name) < Len(BootStages) THEN BootStages[StageIndex(name) + 1] ELSE "getInput"

\* mutant: the error of a stage is swallowed and run() goes on
AfterThrow_Swallowed(name) == AfterStage(name)

\* a stage that throws rejects run(): nothing of run() is left to execute,
\* and the callback of main().catch is called
AfterThrow(name) == "catch"

\* mutant: the failure is logged with the default code of safeExecute
CriticalFailure_General ==
  [level |-> "error", msg |-> "Critical system failure", data |-> <<>>, code |-> "GEN001"]

\* logError(`Critical system failure: ${err.message}`, 'MAIN001', err.stack)
CriticalFailure ==
  [level |-> "error", msg |-> "Critical system failure", data |-> <<>>, code |-> "MAIN001"]

Init ==
  /\ pc = "start"
  /\ bitCall = NoCall
  /\ originalBinary1 = <<>> /\ originalBinary2 = <<>>
  /\ binary1 = <<>> /\ binary2 = <<>> /\ operation = <<>>
  /\ result = <<>> /\ cpu = NoCpu /\ ram = NoRam /\ display = NoDisplay
  /\ log = <<>> /\ evals = <<>> /\ rnd = 0 /\ clock = 0 /\ rlOpen = TRUE
  /\ input = <<>> /\ sig = "none" /\ exitCode = NaN
  /\ OthersIdle

\* run(): 'Initializing Hyper-Realistic OS Simulation...' and the first delay
\* (log holds the entries this run writes)
Start ==
  /\ pc = "start"
  /\ Alive
  /\ AdaptiveDelay
  /\ pc' = BootStages[1]
  /\ UNCHANGED <<bitCall, originalBinary1, originalBinary2, binary1, binary2, operation,
                 result, cpu, ram, display, log, evals, rlOpen, input, sig, exitCode, others>>

\* a boot stage runs to its end, or throws
BootStage ==
  /\ \E i \in 1..Len(BootStages) : pc = BootStages[i]
  /\ Alive
  /\ AdaptiveDelay
  /\ \/ /\ pc' = AfterStage(pc)
        /\ log' = Append(log, Entry("info", "stage completed", <<pc>>))
     \/ /\ pc \in ThrowingStages
        /\ pc' = AfterThrow(pc)
        /\ log' = log
  /\ UNCHANGED <<bitCall, originalBinary1, originalBinary2, binary1, binary2, operation,
                 result, cpu, ram, display, evals, rlOpen, input, sig, exitCode, others>>

\* getInput: 'Launching user-space interface...'
LaunchUserSpace ==
  /\ pc = "getInput"
  /\ Alive
  /\ AdaptiveDelay
  /\ log' = Append(log, Entry("info", "Launching user-space interface...", <<>>))
  /\ pc' = "getBinaryInput1"
  /\ UNCHANGED <<bitCall, originalBinary1, originalBinary2, binary1, binary2, operation,
                 result, cpu, ram, display, evals, rlOpen, input, sig, exitCode, others>>

\* getBinaryInput, first prompt: one line is read, and rejected or returned
FirstBinaryFrom(answers) ==
  /\ pc = "getBinaryInput1"
  /\ Alive
  /\ \E line \in answers :
       LET trimmedInput == Trim(line)
       IN /\ input' = line
          /\ \/ /\ trimmedInput = <<>> \/ ~IsBinaryInput(trimmedInput)
                /\ UNCHANGED <<pc, originalBinary1>>
             \/ /\ trimmedInput # <<>> /\ IsBinaryInput(trimmedInput)
                /\ originalBinary1' = trimmedInput
                /\ pc' = "getBinaryInput2"
  /\ UNCHANGED <<bitCall, originalBinary2, binary1, binary2, operation, result, cpu, ram,
                 display, log, evals, rnd, clock, rlOpen, sig, exitCode, others>>

FirstBinary == FirstBinaryFrom(Lines)

\* getBinaryInput, second prompt, and the rest of getInput once it returns
SecondBinaryFrom(answers) ==
  /\ pc = "getBinaryInput2"
  /\ Alive
  /\ \E line \in answers :
       LET trimmedInput == Trim(line)
       IN /\ input' = line
          /\ \/ /\ trimmedInput = <<>> \/ ~IsBinaryInput(trimmedInput)
                /\ UNCHANGED <<pc, originalBinary2, binary1, binary2, log>>
             \/ /\ trimmedInput # <<>> /\ IsBinaryInput(trimmedInput)
                /\ originalBinary2' = trimmedInput
                /\ binary1' = PadInput(originalBinary1)
                /\ binary2' = PadInput(trimmedInput)
                /\ log' = Append(log, Entry("info", "User inputs",
                                   <<originalBinary1, ParseInt2(originalBinary1),
                                     trimmedInput, ParseInt2(trimmedInput)>>))
                /\ pc' = "chooseOperation"
  /\ UNCHANGED <<bitCall, originalBinary1, operation, result, cpu, ram, display, evals,
                 rnd, clock, rlOpen, sig, exitCode, others>>

SecondBinary == SecondBinaryFrom(Lines)

\* chooseOperation: one line is read; chooseOperationStage once it returns
ChooseOperationFrom(answers) ==
  /\ pc = "chooseOperation"
  /\ Alive
  /\ \E line \in answers :
       LET op == Trim(ToUpperCase(line))
       IN /\ input' = line
          /\ \/ /\ ~Includes(operations, op)
                /\ UNCHANGED <<pc, operation, log>>
             \/ /\ Includes(operations, op)
                /\ operation' = op
                /\ log' = Append(log, Entry("info", "Operation chosen", <<op>>))
                /\ pc' = "performOperation"
  /\ UNCHANGED <<bitCall, originalBinary1, originalBinary2, binary1, binary2, result, cpu,
                 ram, display, evals, rnd, clock, rlOpen, sig, exitCode, others>>

ChooseOperation == ChooseOperationFrom(OpLines)

\* OSSimulator.performOperation: a throw rejects run() and reaches main().catch
CpuExecution == CallPerformOperation("storeInRAM", "catch")

StoreInRAM ==
  /\ pc = "storeInRAM"
  /\ Alive
  /\ AdaptiveDelay
  /\ LET decimalResult == ParseInt2(result)
     IN /\ ram' = [done |-> TRUE, result |-> result, decimalResult |-> decimalResult]
        /\ log' = log \o << Entry("info", "Allocating RAM for result...", <<>>),
                            Entry("info", "Stored in RAM", <<result, decimalResult>>),
                            Entry("info", "Result stored in RAM", <<result, decimalResult>>) >>
  /\ pc' = "displayOutput"
  /\ UNCHANGED <<bitCall, originalBinary1, originalBinary2, binary1, binary2, operation,
                 result, cpu, display, evals, rlOpen, input, sig, exitCode, others>>

\* the arguments run() calls displayOutput with
DisplayArgs_Padded ==
  [operation |-> operation, originalBinary1 |-> binary1, originalBinary2 |-> binary2,
   result |-> result]

DisplayArgs_Trimmed ==
  [operation |-> operation, originalBinary1 |-> originalBinary1,
   originalBinary2 |-> originalBinary2, result |-> TrimmedResult(result)]

DisplayArgs ==
  [operation |-> operation, originalBinary1 |-> originalBinary1,
   originalBinary2 |-> originalBinary2, result |-> result]

DisplayOutput ==
  /\ pc = "displayOutput"
  /\ Alive
  /\ AdaptiveDelay
  /\ LET args == DisplayArgs
         decimal1 == ParseInt2(args.originalBinary1)
         decimal2 == ParseInt2(args.originalBinary2)
         decimalResult == ParseInt2(args.result)
         trimmedResult == TrimmedResult(args.result)
     IN /\ display' =
             [done |-> TRUE, operation |-> args.operation,
              inputA |-> args.originalBinary1, decimal1 |-> decimal1,
              fullA |-> PadStart(args.originalBinary1, MAX_BINARY_LENGTH, "0"),
              showsB |-> (args.operation # NOT),
              inputB |-> args.originalBinary2, decimal2 |-> decimal2,
              fullB |-> PadStart(args.originalBinary2, MAX_BINARY_LENGTH, "0"),
              trimmedResult |-> trimmedResult, decimalResult |-> decimalResult,
              full |-> args.result]
        /\ log' = log \o
             << Entry("info", "Simulating dmesg: Kernel boot completed", <<>>),
                Entry("info", "Simulating journalctl --boot output: Logs ready", <<>>),
                Entry("info", "System fully booted",
                      <<args.operation, args.originalBinary1, decimal1,
                        args.originalBinary2, decimal2, trimmedResult, decimalResult>>) >>
  /\ pc' = "cleanup"
  /\ UNCHANGED <<bitCall, originalBinary1, originalBinary2, binary1, binary2, operation,
                 result, cpu, ram, evals, rlOpen, input, sig, exitCode, others>>

\* 'Simulation Complete - System Online!' and cleanup()
Cleanup ==
  /\ pc = "cleanup"
  /\ Alive
  /\ log' = Append(log, Entry("info", "Cleaning up resources...", <<>>))
  /\ rlOpen' = FALSE
  /\ pc' = "success"
  /\ UNCHANGED <<bitCall, originalBinary1, originalBinary2, binary1, binary2, operation,
                 result, cpu, ram, display, evals, rnd, clock, input, sig, exitCode, others>>

Success ==
  /\ pc = "success"
  /\ Alive
  /\ log' = Append(log, Entry("info", "SUCCESS", <<>>))
  /\ pc' = "done"
  /\ UNCHANGED <<bitCall, originalBinary1, originalBinary2, binary1, binary2, operation,
                 result, cpu, ram, display, evals, rnd, clock, rlOpen, input, sig, exitCode,
                 others>>

\* main().catch: the error is logged with code MAIN001, then cleanup()
MainCatch ==
  /\ pc = "catch"
  /\ Alive
  /\ log' = log \o << CriticalFailure, Entry("info", "Cleaning up resources...", <<>>) >>
  /\ rlOpen' = FALSE
  /\ pc' = "failed"
  /\ UNCHANGED <<bitCall, originalBinary1, originalBinary2, binary1, binary2, operation,
                 result, cpu, ram, display, evals, rnd, clock, input, sig, exitCode, others>>

Next ==
  \/ Start
  \/ BootStage
  \/ LaunchUserSpace
  \/ FirstBinary
  \/ SecondBinary
  \/ ChooseOperation
  \/ CpuExecution
  \/ StoreInRAM
  \/ DisplayOutput
  \/ Cleanup
  \/ Success
  \/ MainCatch

Spec == Init /\ [][Next]_vars

(***************************************************************************)
(* SpecSignal: a run during which the user may press Ctrl-C.  The handler  *)
(* is an async function: between its awaits the callbacks of run() go on.  *)
(***************************************************************************)
\* what the user types in these runs
SignalLines == { <<" ", "1", "1">>, <<"2">> }

SignalOpLines == { AND, <<"n", "o", "t", " ">>, MAYBE }

\* the signal arrives while the process lives; the handler finds simulator
\* set and writes its log entry
Sigint ==
  /\ sig = "none"
  /\ pc \notin {"done", "failed"}
  /\ log' = Append(log, Entry("error", "System interrupted by user (SIGINT)", <<>>))
  /\ sig' = "logged"
  /\ UNCHANGED <<pc, bitCall, originalBinary1, originalBinary2, binary1, binary2, operation,
                 result, cpu, ram, display, evals, rnd, clock, rlOpen, input, exitCode, others>>

\* 'Shutting down gracefully...', and cleanup() up to the end of its log write
SigintCleanup ==
  /\ sig = "logged"
  /\ log' = Append(log, Entry("info", "Cleaning up resources...", <<>>))
  /\ sig' = "cleanup"
  /\ UNCHANGED <<pc, bitCall, originalBinary1, originalBinary2, binary1, binary2, operation,
                 result, cpu, ram, display, evals, rnd, clock, rlOpen, input, exitCode, others>>

\* cleanup() closes the readline interface and returns; process.exit(0)
SigintExit ==
  /\ sig = "cleanup"
  /\ rlOpen' = FALSE
  /\ exitCode' = 0
  /\ sig' = "exited"
  /\ UNCHANGED <<pc, bitCall, originalBinary1, originalBinary2, binary1, binary2, operation,
                 result, cpu, ram, display, log, evals, rnd, clock, input, others>>

RunStep ==
  \/ Start
  \/ BootStage
  \/ LaunchUserSpace
  \/ FirstBinaryFrom(SignalLines)
  \/ SecondBinaryFrom(SignalLines)
  \/ ChooseOperationFrom(SignalOpLines)
  \/ CpuExecution
  \/ StoreInRAM
  \/ DisplayOutput
  \/ Cleanup
  \/ Success
  \/ MainCatch

NextSignal ==
  \/ RunStep
  \/ Sigint
  \/ SigintCleanup
  \/ SigintExit

SpecSignal == Init /\ [][NextSignal]_vars

(***************************************************************************)
(* SpecDisplay: displayOutput called with a result of any width from 1 to  *)
(* MAX_BINARY_LENGTH                                                       *)
(***************************************************************************)
InitDisplay ==
  /\ pc = "displayOutput"
  /\ bitCall = NoCall
  /\ originalBinary1 = <<"1">> /\ originalBinary2 = <<"0", "1">>
  /\ binary1 = PadInput(originalBinary1) /\ binary2 = PadInput(originalBinary2)
  /\ operation \in {AND, NOT}
  /\ result \in BinaryStrings(MAX_BINARY_LENGTH)
  /\ cpu = NoCpu /\ ram = NoRam /\ display = NoDisplay
  /\ log = <<>> /\ evals = <<>> /\ rnd = 0 /\ clock = 0 /\ rlOpen = TRUE
  /\ input = <<>> /\ sig = "none" /\ exitCode = NaN
  /\ OthersIdle

NextDisplay == DisplayOutput

SpecDisplay == InitDisplay /\ [][NextDisplay]_vars

\* the end of run() in the Promise.all revision: cleanup() and SUCCESS follow
NextParallel ==
  \/ MemoryManagementStep
  \/ EnforceSecurityStep
  \/ SimulationComplete
  \/ Cleanup
  \/ Success

SpecParallel == InitParallel /\ [][NextParallel]_vars

\* Every pending callback is run in the end: those of run() and those of the
\* handler.  A user at a prompt types an accepted line in the end.  Nothing
\* makes the signal arrive.
SpecSignalLive ==
  /\ SpecSignal
  /\ WF_vars(RunStep /\ pc' # pc)
  /\ WF_vars(SigintCleanup)
  /\ WF_vars(SigintExit)

(***************************************************************************)
(* Vocabulary of the properties                                            *)
(***************************************************************************)
\* a BinaryString: 1..8 characters, each '0' or '1'
IsBinaryString(s) == s # Undefined /\ Len(s) \in 1..8 /\ \A i \in 1..Len(s) : s[i] \in Bits

\* s right-aligned in width w, zeros on the left
RightAligned(s, w) == [i \in 1..w |-> IF i <= w - Len(s) THEN "0" ELSE s[i - (w - Len(s))]]

\* the bitwise complement of a bit string
Complement(s) == [i \in 1..Len(s) |-> IF s[i] = "1" THEN "0" ELSE "1"]

RECURSIVE Pow2(_)
Pow2(n) == IF n = 0 THEN 1 ELSE 2 * Pow2(n - 1)

RECURSIVE PositionalSum(_, _)
\* the sum of 2^(Len(s) - i) over the positions i <= k of s that hold '1'
PositionalSum(s, k) ==
  IF k = 0 THEN 0
  ELSE (IF s[k] = "1" THEN Pow2(Len(s) - k) ELSE 0) + PositionalSum(s, k - 1)

\* the unsigned value of a bit string read most-significant-bit first
Unsigned(s) == PositionalSum(s, Len(s))

\* the truth table of the six two-operand operations
TruthTable(a, b, op) ==
  CASE op = AND  -> a = "1" /\ b = "1"
    [] op = OR   -> a = "1" \/ b = "1"
    [] op = XOR  -> a # b
    [] op = NAND -> ~(a = "1" /\ b = "1")
    [] op = NOR  -> a = "0" /\ b = "0"
    [] op = XNOR -> a = b

\* the operation a negated operation negates
Negated(op) == CASE op = NAND -> AND [] op = NOR -> OR [] op = XNOR -> XOR

\* performOperation has returned from a call on two BinaryStrings
Evaluated ==
  /\ pc = "returned"
  /\ cpu.done /\ ~cpu.out.threw
  /\ IsBinaryString(binary1) /\ IsBinaryString(binary2)

\* the last len characters of row
Suffix(row, len) == SubSeq(row, Len(row) - len + 1, Len(row))

(***************************************************************************)
(* Properties of computeBitOperation (SpecBit)                             *)
(***************************************************************************)
\* C1: for bits a, b and each of AND, OR, XOR, NAND, NOR, XNOR,
\* computeBitOperation returns '1' exactly when the truth table says so, and
\* '0' otherwise.
C1_TruthTable ==
  (/\ pc = "bitReturned"
   /\ bitCall.bit1 \in Bits /\ bitCall.bit2 \in Bits
   /\ bitCall.operation \in BinaryOperations)
  => bitCall.resBit =
       (IF TruthTable(bitCall.bit1, bitCall.bit2, bitCall.operation) THEN "1" ELSE "0")

C1_Witness ==
  /\ pc = "bitReturned"
  /\ bitCall.operation = NOR /\ bitCall.bit1 = "0" /\ bitCall.bit2 = "0"
  /\ bitCall.resBit = "1"

\* C5: computeBitOperation(a, b, 'NOT') is the complement of a, whatever b is
\* (a bit or absent): '1' iff a is '0'.
C5_NotIsComplement ==
  (/\ pc = "bitReturned"
   /\ bitCall.operation = NOT
   /\ bitCall.bit1 \in Bits /\ bitCall.bit2 \in Bits \cup {"undefined"})
  => (bitCall.resBit = "1" <=> bitCall.bit1 = "0")

(***************************************************************************)
(* Properties of performOperation (SpecEngine)                             *)
(***************************************************************************)
\* C2: for two BinaryStrings and a two-operand operation, performOperation
\* pads both on the left with '0' to the length of the longer, and returns a
\* string of that length whose bit i is computeBitOperation of the padded
\* operands' bits i; AND of "101" and "11" works on "101" and "011" and gives
\* "001", decimal 1.
C2_PaddedWidth ==
  (Evaluated /\ operation \in BinaryOperations)
  => LET w == Max(Len(binary1), Len(binary2))
         a == RightAligned(binary1, w)
         b == RightAligned(binary2, w)
     IN /\ cpu.out.binary1 = a
        /\ cpu.out.binary2 = b
        /\ Len(result) = w
        /\ \A i \in 1..w : result[i] = ComputeBitOperation(a[i], b[i], operation)
        /\ (binary1 = <<"1", "0", "1">> /\ binary2 = <<"1", "1">> /\ operation = AND)
           => /\ a = <<"1", "0", "1">> /\ b = <<"0", "1", "1">>
              /\ result = <<"0", "0", "1">>
              /\ cpu.out.decimalResult = 1

C2_Witness ==
  /\ Evaluated
  /\ binary1 = <<"1", "0", "1">> /\ binary2 = <<"1", "1">> /\ operation = AND
  /\ result = <<"0", "0", "1">>

\* C3: NOT ignores the second operand: for a BinaryString A and any second
\* operand (a BinaryString or absent) the call returns the complement of A, at
\* A's own length.
C3_NotIgnoresSecond ==
  (/\ pc \in {"returned", "threw"}
   /\ operation = NOT
   /\ IsBinaryString(binary1)
   /\ binary2 = Undefined \/ IsBinaryString(binary2))
  => /\ ~cpu.out.threw
     /\ cpu.out.result = Complement(binary1)

\* C6: NAND, NOR and XNOR are the complements of AND, OR and XOR, bit by bit
\* and for whole operands: the result of the negated operation is the bitwise
\* complement, at the same width, of the result of the operation it negates.
C6_NegationLaws ==
  (Evaluated /\ operation \in {NAND, NOR, XNOR})
  => LET base == PerformOperation(binary1, binary2, Negated(operation))
     IN /\ Len(result) = Len(base.result)
        /\ result = Complement(base.result)
        /\ \A i \in 1..Len(result) :
             (ComputeBitOperation(cpu.out.binary1[i], cpu.out.binary2[i], operation) = "1")
             <=> (ComputeBitOperation(cpu.out.binary1[i], cpu.out.binary2[i],
                                      Negated(operation)) = "0")

C6_Witness ==
  /\ Evaluated
  /\ binary1 = <<"1", "0", "1">> /\ binary2 = <<"1", "1">> /\ operation = XNOR
  /\ result = <<"0", "0", "1">>

\* C7: the decimal value reported with a result is the unsigned base-2 value of
\* the result string read most-significant-bit first, between 0 and 255 for the
\* widths 1..8; "0101" gives 5, and OR of "1010" and "0101" gives "1111", 15.
C7_Decimal ==
  (Evaluated /\ operation \in Operations)
  => /\ cpu.out.decimalResult = Unsigned(cpu.out.result)
     /\ cpu.out.decimalResult \in 0..255
     /\ cpu.out.result = <<"0", "1", "0", "1">> => cpu.out.decimalResult = 5
     /\ (binary1 = <<"1", "0", "1", "0">> /\ binary2 = <<"0", "1", "0", "1">>
         /\ operation = OR)
        => cpu.out.result = <<"1", "1", "1", "1">> /\ cpu.out.decimalResult = 15

C7_Witness ==
  /\ Evaluated
  /\ binary1 = <<"1", "0", "1", "0">> /\ binary2 = <<"0", "1", "0", "1">> /\ operation = OR
  /\ cpu.out.decimalResult = 15

\* C8: the explanation table has one entry per bit of the padded operands, most
\* significant bit first (entry i carries index i), and the explanation of
\* entry i reads "<A[i]> <OP> <B[i]> = <result[i]>", for NOT "<A[i]> NOT =
\* <result[i]>", A and B being the padded operands.
C8_Explanations ==
  (Evaluated /\ operation \in Operations)
  => LET w == Max(Len(binary1), Len(binary2))
         a == RightAligned(binary1, w)
         b == RightAligned(binary2, w)
         table == cpu.out.tableOutput
         expected(i) ==
           IF operation = NOT
           THEN <<a[i], " ", "N", "O", "T", " ", "=", " ", result[i]>>
           ELSE <<a[i], " ">> \o operation \o <<" ", b[i], " ", "=", " ", result[i]>>
     IN /\ Len(table) = w
        /\ Len(result) = w
        /\ \A i \in 1..w :
             /\ SubSeq(table[i], 1, 4) = <<" ", " ">> \o PadEnd(NumToString(i - 1), 2)
             /\ Len(table[i]) >= Len(expected(i)) + 3
             /\ Suffix(table[i], Len(expected(i)) + 3) = <<" ", "|", " ">> \o expected(i)

C8_Witness ==
  /\ Evaluated
  /\ binary1 = <<"1", "0", "1">> /\ binary2 = <<"1", "1">> /\ operation = NAND
  /\ Len(cpu.out.tableOutput) = 3
  /\ Suffix(cpu.out.tableOutput[2], 12) =
       <<"0", " ", "N", "A", "N", "D", " ", "1", " ", "=", " ", "1">>

C10_Commutative ==
  \A i, j \in 1..Len(evals) :
    (/\ evals[i].binary1 = evals[j].binary2
     /\ evals[i].binary2 = evals[j].binary1
     /\ IsBinaryString(evals[i].binary1) /\ IsBinaryString(evals[i].binary2)
     /\ evals[i].operation = evals[j].operation
     /\ evals[i].operation \in BinaryOperations)
    => /\ ~evals[i].out.threw /\ ~evals[j].out.threw
       /\ evals[i].out.result = evals[j].out.result
       /\ evals[i].out.decimalResult = evals[j].out.decimalResult

C10_Witness ==
  /\ Len(evals) = 2
  /\ evals[1].binary1 = <<"1", "0", "1">> /\ evals[1].binary2 = <<"1", "1">>
  /\ evals[2].binary1 = <<"1", "1">> /\ evals[2].binary2 = <<"1", "0", "1">>
  /\ evals[1].operation = AND
  /\ evals[2].out.result = <<"0", "0", "1">>

(***************************************************************************)
(* Properties of a run (Spec)                                              *)
(***************************************************************************)
\* C4 as stated: in a full run the engine's operands and the result have the
\* width of the longer of the two strings the user entered; 1100 with NOT
\* shows 0011, decimal 3.
C4_WidthOfLongerInput ==
  display.done
  => LET w == Max(Len(originalBinary1), Len(originalBinary2))
     IN /\ Len(binary1) = w /\ Len(binary2) = w
        /\ Len(result) = w /\ Len(display.full) = w
        /\ (originalBinary1 = <<"1", "1", "0", "0">> /\ operation = NOT)
           => display.full = <<"0", "0", "1", "1">> /\ display.decimalResult = 3

\* C4 amended: in a full run the engine's operands and the result have the
\* width MAX_BINARY_LENGTH (8), whatever the lengths of the strings the user
\* entered: each string is right-aligned in 8 bits; 101 AND 11 shows 00000001,
\* decimal 1, and 1100 with NOT shows 11110011, decimal 243.
C4_WidthIsMaxBinaryLength ==
  display.done
  => /\ binary1 = RightAligned(originalBinary1, MAX_BINARY_LENGTH)
     /\ binary2 = RightAligned(originalBinary2, MAX_BINARY_LENGTH)
     /\ cpu.out.binary1 = binary1 /\ cpu.out.binary2 = binary2
     /\ Len(result) = MAX_BINARY_LENGTH
     /\ display.full = result
     /\ (/\ originalBinary1 = <<"1", "0", "1">> /\ originalBinary2 = <<"1", "1">>
         /\ operation = AND)
        => /\ display.full = <<"0", "0", "0", "0", "0", "0", "0", "1">>
           /\ display.decimalResult = 1
     /\ (originalBinary1 = <<"1", "1", "0", "0">> /\ operation = NOT)
        => /\ display.full = <<"1", "1", "1", "1", "0", "0", "1", "1">>
           /\ display.decimalResult = 243

C4_Witness ==
  /\ display.done
  /\ originalBinary1 = <<"1", "1", "0", "0">> /\ originalBinary2 = <<"1", "1">>
  /\ operation = NOT
  /\ display.full = <<"1", "1", "1", "1", "0", "0", "1", "1">>

(***************************************************************************)
(* Error outcomes of an evaluation (SpecEngine)                            *)
(***************************************************************************)
\* s is present and holds a character other than '0' and '1'
HasInvalidCharacter(s) == s # Undefined /\ \E i \in 1..Len(s) : s[i] \notin Bits

\* C11: an evaluation with an operand that holds a character other than '0'
\* and '1' ("102" with "11" and AND) fails with InvalidOperand: no result
\* string is produced.
C11_InvalidOperand ==
  \A i \in 1..Len(evals) :
    (/\ evals[i].binary1 # Undefined /\ evals[i].binary2 # Undefined
     /\ HasInvalidCharacter(evals[i].binary1) \/ HasInvalidCharacter(evals[i].binary2)
     /\ evals[i].operation \in Operations)
    => /\ evals[i].out.threw
       /\ evals[i].out.error = "InvalidOperand"
       /\ evals[i].out.result = <<>>

\* C12: an evaluation with an operation name outside the seven names ("1",
\* "1" and MAYBE) fails with InvalidOperation and produces no result string.
C12_InvalidOperation ==
  \A i \in 1..Len(evals) :
    (/\ IsBinaryString(evals[i].binary1) /\ IsBinaryString(evals[i].binary2)
     /\ evals[i].operation \notin Operations)
    => /\ evals[i].out.threw
       /\ evals[i].out.error = "InvalidOperation"
       /\ evals[i].out.result = <<>>

\* the log entries 'Operation ... executed'
ExecutedEntries == SelectSeq(log, LAMBDA e : e.msg = "Operation executed")

\* C13: a binary operation evaluated with the second operand absent is
\* rejected with the error OperandArityMismatch: it produces no result and
\* writes no 'Operation ... executed' log entry.
C13_OperandArityMismatch ==
  (/\ Len(evals) = 1
   /\ IsBinaryString(evals[1].binary1) /\ evals[1].binary2 = Undefined
   /\ evals[1].operation \in BinaryOperations)
  => /\ evals[1].out.threw
     /\ evals[1].out.error = "OperandArityMismatch"
     /\ evals[1].out.result = <<>> /\ result = <<>>
     /\ ExecutedEntries = <<>>

(***************************************************************************)
(* Properties of the prompts and of the hand-over of their answers (Spec)  *)
(***************************************************************************)
\* line without the blanks at its two ends
Stripped(line) ==
  LET inked == {i \in 1..Len(line) : line[i] # " "}
  IN IF inked = {} THEN <<>>
     ELSE SubSeq(line, CHOOSE i \in inked : \A j \in inked : i <= j,
                       CHOOSE i \in inked : \A j \in inked : i >= j)

\* C14: a line read at a prompt for a binary string is returned when,
\* trimmed, it consists of '0' and '1' only and has 1 to 8 characters, and
\* is rejected and asked again otherwise, so that the string returned is
\* the first such line; both operands that reach performOperation are
\* BinaryStrings.
C14_FirstValidLineReturned ==
  /\ [][pc = "getBinaryInput1"
        => IF IsBinaryString(Stripped(input'))
           THEN pc' = "getBinaryInput2" /\ originalBinary1' = Stripped(input')
           ELSE pc' = pc /\ originalBinary1' = <<>>]_vars
  /\ [][pc = "getBinaryInput2"
        => IF IsBinaryString(Stripped(input'))
           THEN pc' = "chooseOperation" /\ originalBinary2' = Stripped(input')
           ELSE pc' = pc /\ originalBinary2' = <<>>]_vars
  /\ [](\A i \in 1..Len(evals) :
          IsBinaryString(evals[i].binary1) /\ IsBinaryString(evals[i].binary2))

C14_Witness ==
  /\ pc = "chooseOperation"
  /\ originalBinary1 = Repeat("1", 8)
  /\ originalBinary2 = <<"0">> /\ input = <<" ", "0">>
  /\ binary2 = Repeat("0", 8)

\* c and d are the same letter in either case, or the same character
SameLetter(c, d) ==
  c = d \/ \E i \in 1..Len(LowerLetters) : {c, d} = {LowerLetters[i], UpperLetters[i]}

SameIgnoringCase(a, b) == Len(a) = Len(b) /\ \A i \in 1..Len(a) : SameLetter(a[i], b[i])

\* C15: a line read at the prompt for the operation is returned, as the
\* upper-case name, when trimmed it is one of the seven names in any case,
\* and is rejected and asked again otherwise, so that the name returned is
\* that of the first accepted line; the operation chosen is always one of
\* the seven upper-case names.
C15_OperationChosen ==
  /\ [][pc = "chooseOperation"
        => IF \E name \in Operations : SameIgnoringCase(Stripped(input'), name)
           THEN /\ pc' = "performOperation"
                /\ operation' \in Operations
                /\ SameIgnoringCase(Stripped(input'), operation')
           ELSE pc' = pc /\ operation' = <<>>]_vars
  /\ [](operation # <<>>
        => /\ operation \in Operations
           /\ \A i \in 1..Len(operation) :
                \E k \in 1..Len(UpperLetters) : operation[i] = UpperLetters[k])

C15_Witness ==
  /\ pc = "performOperation"
  /\ input = <<" ", "X", "o", "r">>
  /\ operation = XOR

\* the log entry displayOutput writes
BootedEntries == SelectSeq(log, LAMBDA e : e.msg = "System fully booted")

\* C16: the strings returned by the two prompts are never changed by the
\* padding, and displayOutput shows and logs them as the original inputs A
\* and B: exactly the trimmed strings the user entered, not padded.
C16_OriginalsKept ==
  /\ [][pc = "getBinaryInput1" /\ pc' # pc => originalBinary1' = Stripped(input')]_vars
  /\ [][pc = "getBinaryInput2" /\ pc' # pc => originalBinary2' = Stripped(input')]_vars
  /\ [][/\ originalBinary1 # <<>> => originalBinary1' = originalBinary1
        /\ originalBinary2 # <<>> => originalBinary2' = originalBinary2]_vars
  /\ [](display.done
        => /\ display.inputA = originalBinary1
           /\ display.inputB = originalBinary2
           /\ Len(BootedEntries) = 1
           /\ BootedEntries[1].data[2] = originalBinary1
           /\ BootedEntries[1].data[4] = originalBinary2)

C16_Witness ==
  /\ display.done
  /\ originalBinary1 = <<"1", "0", "1">> /\ originalBinary2 = <<"1">>
  /\ input = <<"A", "N", "D">>
  /\ binary1 = <<"0", "0", "0", "0", "0", "1", "0", "1">>
  /\ display.inputA = <<"1", "0", "1">> /\ display.inputB = <<"1">>

(***************************************************************************)
(* Properties of the order of a run (Spec)                                 *)
(***************************************************************************)
\* the place in the log of the first entry with this message, 0 when none
PlaceOf(msg) ==
  IF \E i \in 1..Len(log) : log[i].msg = msg
  THEN CHOOSE i \in 1..Len(log) : log[i].msg = msg /\ \A j \in 1..(i - 1) : log[j].msg # msg
  ELSE 0

\* C18: in a run performOperation is called at most once, and only after
\* both operands and then the operation have been collected; the string
\* it returns is handed unchanged to storeInRAM and then to displayOutput.
C18_OneEvaluationHandedOn ==
  /\ Len(evals) <= 1
  /\ Len(evals) = 1
     => /\ evals[1].binary1 = RightAligned(originalBinary1, MAX_BINARY_LENGTH)
        /\ evals[1].binary2 = RightAligned(originalBinary2, MAX_BINARY_LENGTH)
        /\ evals[1].operation = operation /\ operation \in Operations
        /\ 0 < PlaceOf("User inputs")
        /\ PlaceOf("User inputs") < PlaceOf("Operation chosen")
        /\ PlaceOf("Operation chosen") < PlaceOf("Executing via CPU...")
  /\ ram.done
     => /\ Len(evals) = 1 /\ ~evals[1].out.threw
        /\ ram.result = evals[1].out.result
  /\ display.done
     => /\ ram.done
        /\ display.full = evals[1].out.result
        /\ PlaceOf("Operation executed") < PlaceOf("Result stored in RAM")
        /\ PlaceOf("Result stored in RAM") < PlaceOf("System fully booted")

C18_Witness ==
  /\ display.done
  /\ Len(evals) = 1
  /\ evals[1].operation = XOR
  /\ evals[1].out.result = <<"0", "0", "0", "0", "0", "1", "1", "0">>
  /\ display.full = <<"0", "0", "0", "0", "0", "1", "1", "0">>
  /\ display.trimmedResult = <<"1", "1", "0">>

(***************************************************************************)
(* Properties of the log of an evaluation (SpecEngine)                     *)
(***************************************************************************)
\* C20: each evaluation writes exactly one 'Operation ... executed' log
\* entry, as its last entry, after all bits are computed: the entry holds
\* the padded operands, the whole result and their decimal values; the
\* number of log entries does not grow with the number of bits.
C20_OneExecutedEntry ==
  /\ Len(ExecutedEntries) = Cardinality({i \in 1..Len(evals) : ~evals[i].out.threw})
  /\ Len(log) = Len(StepsBeforeExecution(operation)) * Len(evals) + Len(ExecutedEntries)
  /\ \A i \in 1..Len(evals) :
       (/\ IsBinaryString(evals[i].binary1) /\ IsBinaryString(evals[i].binary2)
        /\ evals[i].operation \in Operations)
       => LET w == Max(Len(evals[i].binary1), Len(evals[i].binary2))
              a == RightAligned(evals[i].binary1, w)
              b == RightAligned(evals[i].binary2, w)
              r == evals[i].out.result
          IN /\ Len(r) = w
             /\ ExecutedEntries[i].data =
                  <<evals[i].operation, a, Unsigned(a), b, Unsigned(b), r, Unsigned(r)>>
             /\ log[(Len(StepsBeforeExecution(operation)) + 1) * i] = ExecutedEntries[i]

C20_Witness ==
  /\ pc = "returned"
  /\ Len(evals) = 2
  /\ binary1 = <<"1", "0", "1">> /\ binary2 = <<"1", "1">> /\ operation = OR
  /\ Len(ExecutedEntries) = 2
  /\ log[Len(log)].data =
       <<OR, <<"1", "0", "1">>, 5, <<"0", "1", "1">>, 3, <<"1", "1", "1">>, 7>>

(***************************************************************************)
(* Properties of runs the user may interrupt (SpecSignal, SpecSignalLive)  *)
(***************************************************************************)
\* a SIGINT has been handled, or is being handled
Interrupted == sig # "none"

\* a boot stage threw: the run ended before a prompt was shown
BootFailed == pc \in {"catch", "failed"} /\ originalBinary1 = <<>> /\ evals = <<>>

\* both operands and the operation have been collected
InputsSupplied == pc = "performOperation"

\* the core was called and its result displayed
ResultDisplayed == cpu.done /\ ~cpu.out.threw /\ display.done /\ display.full = cpu.out.result

SigintPlace == PlaceOf("System interrupted by user (SIGINT)")

\* C19: when SIGINT arrives the handler writes 'System interrupted by user
\* (SIGINT)' at level error, then runs cleanup, which writes its entry and
\* closes the readline interface, and only then exits with code 0; after
\* the exit no step of the run and no log write happens.
C19_GracefulShutdown ==
  /\ [](Interrupted => SigintPlace > 0 /\ log[SigintPlace].level = "error")
  /\ [](sig \in {"cleanup", "exited"}
        => \E j \in (SigintPlace + 1)..Len(log) : log[j].msg = "Cleaning up resources...")
  /\ [](sig = "exited" => exitCode = 0 /\ ~rlOpen)
  /\ [](sig # "exited" => exitCode = NaN)
  /\ [][sig' # sig => \/ sig = "none" /\ sig' = "logged"
                      \/ sig = "logged" /\ sig' = "cleanup"
                      \/ sig = "cleanup" /\ sig' = "exited"]_vars
  /\ [][sig # "exited"]_vars

C19_Witness ==
  /\ sig = "exited" /\ exitCode = 0 /\ ~rlOpen
  /\ pc = "chooseOperation"
  /\ SigintPlace > 0
  /\ log[SigintPlace + 1].msg = "User inputs"
  /\ log[Len(log)].msg = "Cleaning up resources..."

(***************************************************************************)
(* The two revisions of performOperation (SpecEarlier)                     *)
(***************************************************************************)
\* C21: for AND, OR and XOR and every pair of BinaryStrings, the earlier
\* performOperation, which delays after each bit and builds no table, and
\* the current one, which builds the table and prints it after the loop,
\* return the same result string.
C21_SameResultInBothRevisions ==
  (/\ Len(evals) = 2
   /\ IsBinaryString(binary1) /\ IsBinaryString(binary2)
   /\ operation \in {AND, OR, XOR})
  => /\ ~evals[2].out.threw
     /\ evals[1].out.result = evals[2].out.result
     /\ Len(evals[1].out.result) = Max(Len(binary1), Len(binary2))

C21_Witness ==
  /\ Len(evals) = 2
  /\ binary1 = <<"1", "0", "1">> /\ binary2 = <<"1", "1">> /\ operation = XOR
  /\ evals[1].out.result = <<"1", "1", "0">>
  /\ evals[2].out.result = <<"1", "1", "0">>
  /\ evals[2].clock < evals[1].clock + 2

(***************************************************************************)
(* The stages awaited with Promise.all (SpecParallel)                      *)
(***************************************************************************)
\* the entries of log that are among those of entries, in the order of log
EntriesOf(entries) ==
  SelectSeq(log, LAMBDA e : \E k \in 1..Len(entries) : entries[k] = e)

\* C28: under every interleaving of the steps of memoryManagement and
\* enforceSecurity, both stages have completed before 'Simulation
\* Complete' is printed, cleanup runs and SUCCESS is logged, and the log
\* entries of each stage appear in the order of that stage's program.
C28_BothStagesBeforeCompletion ==
  /\ pc \in {"cleanup", "success", "done"}
     => /\ EntriesOf(MemoryEntries) = MemoryEntries
        /\ EntriesOf(SecurityEntries) = SecurityEntries
        /\ PlaceOf("Cleaning up resources...") = 0
           \/ /\ PlaceOf("Memory management initialized") < PlaceOf("Cleaning up resources...")
              /\ PlaceOf("Security policies enforced") < PlaceOf("Cleaning up resources...")
  /\ EntriesOf(MemoryEntries) = SubSeq(MemoryEntries, 1, memoryStep)
  /\ EntriesOf(SecurityEntries) = SubSeq(SecurityEntries, 1, securityStep)
  /\ pc = "done" => log[Len(log)].msg = "SUCCESS" /\ ~rlOpen

C28_Witness ==
  /\ pc = "done"
  /\ log[1].msg = "Activating SELinux policies..."
  /\ log[2].msg = "Initializing virtual memory..."
  /\ log[7].msg = "Security policies enforced"
  /\ log[8].msg = "Memory management initialized"
  /\ log[Len(log)].msg = "SUCCESS"

(***************************************************************************)
(* Properties of the logger and of safeExecute (SpecLogger)                *)
(***************************************************************************)
\* the file ends with the SUCCESS line logOperation appends
LeftBySuccessfulRun(file) ==
  LET line == LogMessage(SuccessEntry) \o <<"\n">>
      c == file.content
  IN file.exists /\ Len(c) >= Len(line) /\ SubSeq(c, Len(c) - Len(line) + 1, Len(c)) = line

\* the file holds whole lines, the last of which is not the SUCCESS line
LeftByFailedRun(file) ==
  /\ file.exists
  /\ file.content = <<>> \/ file.content[Len(file.content)] = "\n"
  /\ ~LeftBySuccessfulRun(file)

\* no read and no write went wrong during the call
NothingFailed ==
  /\ logErrors = <<>>
  /\ \A k \in 1..Len(logFile.content) : logFile.content[k] # "Failed to clear log file:"

\* C22: checkAndClearLogFile clears the log file if and only if it exists
\* and the previous run failed: a file that ends with the SUCCESS line of
\* logOperation is left unchanged, a file left by a failed run is emptied
\* (and the clearing noted in it), and a missing file is neither created
\* nor reported as an error.
C22_ClearedOnlyAfterFailure ==
  (pc = "returned" /\ call.fn = "checkAndClearLogFile")
  => /\ LeftBySuccessfulRun(call.file) => logFile = call.file
     /\ (LeftByFailedRun(call.file) /\ NothingFailed)
        => logFile.content = ContentOf(<<ClearedEntry>>)
     /\ ~call.file.exists => ~logFile.exists /\ logErrors = <<>>

\* C23: safeExecute returns what fn returns; when fn throws it returns
\* false and logs nothing if the error code is ENOENT and the context
\* contains 'checking', and otherwise calls logError with ACC001 for EACCES,
\* MEM001 for ENOMEM, IO001 for EIO and else the code of its caller, and
\* returns null.  No exception leaves it.
C23_SafeExecuteOutcome ==
  /\ call.fn = "safeExecute" => call.ret \in {"pending", "stats", "undefined", "false", "null"}
  /\ (pc = "returned" /\ call.fn = "safeExecute")
     => LET fn == call.outcome
            checking == \E k \in 1..Len(call.context) : call.context[k] = "checking"
        IN /\ ~fn.threw => call.ret = fn.value /\ logErrors = <<>>
           /\ (fn.threw /\ fn.code = "ENOENT" /\ checking)
              => call.ret = "false" /\ logErrors = <<>> /\ logFile = call.file
           /\ (fn.threw /\ ~(fn.code = "ENOENT" /\ checking))
              => /\ call.ret = "null"
                 /\ Len(logErrors) >= 1
                 /\ fn.code = "EACCES" => logErrors[1] = "ACC001"
                 /\ fn.code = "ENOMEM" => logErrors[1] = "MEM001"
                 /\ fn.code = "EIO" => logErrors[1] = "IO001"
                 /\ fn.code \notin {"EACCES", "ENOMEM", "EIO"} => logErrors[1] = call.errorCode

C23_Witness ==
  /\ pc = "returned"
  /\ call.fn = "safeExecute"
  /\ call.outcome.threw /\ call.outcome.code = "EIO"
  /\ call.errorCode = "FS001"
  /\ call.ret = "null"
  /\ logErrors = <<"IO001">>
  /\ \E k \in 1..Len(logFile.content) : logFile.content[k] = "IO001"

\* C26: a call of logOperation returns; when writes fail, the chain
\* logOperation -> safeExecute -> logError -> logOperation ends there: the
\* logOperation that logError calls starts no further one.
C26_ChainBounded == Len(pending) <= 2

(***************************************************************************)
(* Properties of a run that fails, and of the SUCCESS entry                *)
(***************************************************************************)
\* the entries of the stages of boot that ran to their end
StagesCompleted == SelectSeq(log, LAMBDA e : e.msg = "stage completed")

\* the entries with this message
EntriesWith(msg) == SelectSeq(log, LAMBDA e : e.msg = msg)

\* run() was rejected by a stage of boot
BootStageThrew == pc \in {"catch", "failed"} /\ Len(StagesCompleted) < Len(BootStages)

\* C24: when a stage of boot throws, the stages that ran are those before
\* it, no input was asked for and performOperation was not called; once
\* main().catch has run, the log ends with the error entry of level error
\* and code MAIN001 followed by the entry of cleanup, and the readline
\* interface is closed (it is open until then).
C24_BootFailureStopsRun ==
  BootStageThrew =>
    /\ \A i \in 1..Len(StagesCompleted) : StagesCompleted[i].data = <<BootStages[i]>>
    /\ BootStages[Len(StagesCompleted) + 1] \in ThrowingStages
    /\ \A i \in 1..Len(log) : log[i].msg \in {"stage completed", "Critical system failure",
                                              "Cleaning up resources..."}
    /\ input = <<>> /\ originalBinary1 = <<>> /\ originalBinary2 = <<>> /\ operation = <<>>
    /\ evals = <<>> /\ ~cpu.done /\ ~ram.done /\ ~display.done
    /\ pc = "catch" => rlOpen /\ EntriesWith("Critical system failure") = <<>>
    /\ pc = "failed"
       => /\ ~rlOpen
          /\ Len(log) = Len(StagesCompleted) + 2
          /\ log[Len(log) - 1].level = "error"
          /\ log[Len(log) - 1].msg = "Critical system failure"
          /\ log[Len(log) - 1].code = "MAIN001"
          /\ log[Len(log)] = Entry("info", "Cleaning up resources...", <<>>)

C24_Witness ==
  /\ pc = "failed"
  /\ Len(StagesCompleted) = 6
  /\ log[7].code = "MAIN001"
  /\ ~rlOpen

\* the messages of the entries that the five stages after boot write last
StageEntries ==
  << "User inputs", "Operation chosen", "Operation executed", "Result stored in RAM",
     "System fully booted" >>

\* C25: the log of a run holds at most one SUCCESS entry; when it holds
\* one it is the last entry, the run is over, the entry before it is that of
\* cleanup, the readline interface is closed, and each of the thirteen
\* stages has written its entry, in order.  A run that a stage rejected
\* holds none.
C25_SuccessOnlyAfterAllStages ==
  /\ Len(EntriesWith("SUCCESS")) <= 1
  /\ pc \in {"catch", "failed"} => EntriesWith("SUCCESS") = <<>>
  /\ EntriesWith("SUCCESS") # <<>>
     => /\ pc = "done"
        /\ log[Len(log)].msg = "SUCCESS"
        /\ log[Len(log) - 1].msg = "Cleaning up resources..."
        /\ ~rlOpen
        /\ Len(StagesCompleted) = Len(BootStages)
        /\ \A i \in 1..Len(BootStages) : StagesCompleted[i].data = <<BootStages[i]>>
        /\ \A i \in 1..Len(StageEntries) : Len(EntriesWith(StageEntries[i])) = 1
        /\ \A i \in 1..(Len(StageEntries) - 1) :
             PlaceOf(StageEntries[i]) < PlaceOf(StageEntries[i + 1])
        /\ PlaceOf("System fully booted") < PlaceOf("Cleaning up resources...")
        /\ PlaceOf("Cleaning up resources...") < PlaceOf("SUCCESS")
        /\ EntriesWith("Critical system failure") = <<>>

C25_Witness ==
  /\ pc = "done"
  /\ log[Len(log)].msg = "SUCCESS"
  /\ display.done
  /\ operation = XNOR

\* C27: once the handler of SIGINT has written its entry, no SUCCESS entry
\* is written: no SUCCESS entry follows the SIGINT entry in the log, and the
\* log of an interrupted run does not end with SUCCESS.
C27_NoSuccessAfterSigint ==
  Interrupted =>
    /\ \A j \in 1..Len(log) : log[j].msg = "SUCCESS" => j < SigintPlace
    /\ log[Len(log)].msg # "SUCCESS"

(***************************************************************************)
(* Properties of the calls of computeBitOperation (Spec)                   *)
(***************************************************************************)
\* the calls of computeBitOperation that the run has made
BitCalls == UNION { {e.out.bitCalls[i] : i \in 1..Len(e.out.bitCalls)} : e \in
                    {evals[k] : k \in 1..Len(evals)} }

\* C29: in a run computeBitOperation is called with one of AND, OR, XOR,
\* NAND, NOR, XNOR and two bits of {'0','1'} only, so that its last
\* return is not reached; a NOT calls it not at all.
C29_BitCallsInDomain ==
  /\ \A c \in BitCalls : c.operation \in BinaryOperations /\ c.bit1 \in Bits /\ c.bit2 \in Bits
  /\ \A k \in 1..Len(evals) : evals[k].operation = NOT => evals[k].out.bitCalls = <<>>
  /\ \A k \in 1..Len(evals) :
       evals[k].operation # NOT => Len(evals[k].out.bitCalls) = MAX_BINARY_LENGTH

C29_Witness ==
  /\ evals # <<>>
  /\ [bit1 |-> "1", bit2 |-> "0", operation |-> NOR] \in BitCalls
  /\ [bit1 |-> "0", bit2 |-> "0", operation |-> NOR] \in BitCalls

(***************************************************************************)
(* Properties of the result shown (SpecDisplay)                            *)
(***************************************************************************)
\* C30: for a result of any width from 1 to 8, the trimmed result that
\* displayOutput shows is not empty, starts with '0' only when it is '0',
\* is what is left of the full result behind its leading zeros, and has the
\* unsigned value of the full result.
C30_TrimmedResult ==
  display.done =>
    /\ display.full = result
    /\ Len(display.full) \in 1..MAX_BINARY_LENGTH
    /\ display.trimmedResult # <<>>
    /\ Head(display.trimmedResult) = "0" => display.trimmedResult = <<"0">>
    /\ Len(display.trimmedResult) <= Len(display.full)
    /\ display.trimmedResult = Suffix(display.full, Len(display.trimmedResult))
    /\ Unsigned(display.trimmedResult) = Unsigned(display.full)
    /\ display.decimalResult = Unsigned(display.trimmedResult)

C30_Witness ==
  /\ display.done
  /\ display.full = <<"0", "0", "0">>
  /\ display.trimmedResult = <<"0">>

====
